---- MODULE Spec2Model ----
(***************************************************************************)
(* Company Visit Tracker: contracts, month folders, visits, report         *)
(* documents and the signature workflow (Odoo models company.visit,        *)
(* not.contracted.visit, visit.contract, visit.folder, visit.document and  *)
(* the sign.request extension, plus the extra.visit.wizard).               *)
(*                                                                         *)
(* Records carry an integer id handed out by a per-table counter, as the   *)
(* database does; a many2one that is not set is 0.  search(..., limit=1)   *)
(* returns the record with the lowest id (the default _order).             *)
(***************************************************************************)
EXTENDS Integers, Sequences, FiniteSets, TLC

(***************************************************************************)
(* Bounds of the model.                                                    *)
(***************************************************************************)
MaxVisits == 3
MaxNCVisits == 2
MaxDocs == 4
MaxSignRequests == 2
MaxQuota == 2
MaxExtra == 2
MaxRequired == 9

(***************************************************************************)
(* Calendar: a date is <<year, month, day>>; weekday() is Python's, with   *)
(* Monday = 0.  1 January 2024 is a Monday.                                *)
(***************************************************************************)
BaseYear == 2024

IsLeap(y) == (y % 4 = 0 /\ y % 100 # 0) \/ y % 400 = 0

DaysInMonth(y, m) ==
    IF m \in {4, 6, 9, 11} THEN 30
    ELSE IF m = 2 THEN (IF IsLeap(y) THEN 29 ELSE 28)
    ELSE 31

RECURSIVE DaysBeforeMonth(_, _)
DaysBeforeMonth(y, m) ==
    IF m = 1 THEN 0 ELSE DaysBeforeMonth(y, m - 1) + DaysInMonth(y, m - 1)

RECURSIVE DaysBeforeYear(_)
DaysBeforeYear(y) ==
    IF y <= BaseYear THEN 0
    ELSE DaysBeforeYear(y - 1) + (IF IsLeap(y - 1) THEN 366 ELSE 365)

Weekday(d) == (DaysBeforeYear(d[1]) + DaysBeforeMonth(d[1], d[2]) + d[3] - 1) % 7

DateLE(a, b) ==
    \/ a[1] < b[1]
    \/ a[1] = b[1] /\ a[2] < b[2]
    \/ a[1] = b[1] /\ a[2] = b[2] /\ a[3] <= b[3]

NoDate == <<0, 0, 0>>

(* sorted(list of dates): insertion sort, ascending *)
RECURSIVE InsertDate(_, _)
InsertDate(d, s) ==
    IF s = <<>> THEN <<d>>
    ELSE IF DateLE(d, Head(s)) THEN <<d>> \o s
    ELSE <<Head(s)>> \o InsertDate(d, Tail(s))

RECURSIVE SortDates(_)
SortDates(s) == IF s = <<>> THEN <<>> ELSE InsertDate(Head(s), SortDates(Tail(s)))

(***************************************************************************)
(* VisitContract._get_visit_dates_for_month                                *)
(***************************************************************************)
RECURSIVE PotentialDatesFrom(_, _, _, _)
PotentialDatesFrom(y, m, day, preferred_weekdays) ==
    IF day > DaysInMonth(y, m) THEN <<>>
    ELSE (IF Weekday(<<y, m, day>>) \in preferred_weekdays THEN << <<y, m, day>> >> ELSE <<>>)
         \o PotentialDatesFrom(y, m, day + 1, preferred_weekdays)

(* a variant that repeats one time too few *)
RepeatOneLess(x, n) == [i \in 1..(IF n > 1 THEN n - 1 ELSE 0) |-> x]

(* [x] * n *)
Repeat(x, n) == [i \in 1..(IF n > 0 THEN n ELSE 0) |-> x]

(* a variant that stays on the last matching day instead of wrapping *)
RoundRobinClamp(i, potential_count) ==
    IF i < potential_count THEN i ELSE potential_count - 1

(* date_index = i % potential_count *)
RoundRobinIndex(i, potential_count) == i % potential_count

GetVisitDatesForMonth(preferred_weekdays, target_date, required_visits) ==
    IF preferred_weekdays = {} \/ required_visits <= 0
    THEN Repeat(target_date, required_visits)
    ELSE LET potential_dates ==
                 PotentialDatesFrom(target_date[1], target_date[2], 1, preferred_weekdays)
             potential_count == Len(potential_dates)
         IN IF potential_dates = <<>>
            THEN Repeat(target_date, required_visits)
            ELSE SortDates([k \in 1..required_visits |->
                     potential_dates[RoundRobinIndex(k - 1, potential_count) + 1]])

(***************************************************************************)
(* Master data.  Partner names are plain words (no "Signed", no "-VST-").  *)
(***************************************************************************)
Partners == {"ClientA", "ClientB"}
Contracts == {1, 2}
ContractPartner(c) == IF c = 1 THEN "ClientA" ELSE "ClientB"

WeekdaySets == {{}, {0, 2}}
TriggerDates == << <<2025, 3, 3>> >>

(* start_date, end_date, visits_per_month and preferred weekdays a user    *)
(* may give a contract                                                     *)
ContractDraft(period, q, w) ==
    [start_date |-> period[1], end_date |-> period[2], visits_per_month |-> q,
     preferred |-> w, state |-> "draft", folder_id |-> 0]

ContractChoices(c) ==
    IF c = 1
    THEN { ContractDraft(<< <<2025, 3, 1>>, <<2025, 3, 31>> >>, MaxQuota, w) :
               w \in WeekdaySets }
    ELSE { ContractDraft(<< <<2025, 3, 1>>, <<2025, 3, 31>> >>, 1, {}),
           ContractDraft(<< <<2025, 3, 1>>, <<2025, 3, 31>> >>, 0, {}),
           ContractDraft(<< <<2025, 1, 31>>, <<2025, 3, 15>> >>, 1, {}) }

(***************************************************************************)
(* Names.  A folder name is <<text, year, month>>: a partner folder is     *)
(* <<partner name, 0, 0>>, a month folder '%Y-%m (%B)' is <<"", y, m>>.    *)
(* A document name is a record: signed marks the leading "Signed " of      *)
(* 'Signed Visit Report - R.pdf' against 'Visit Report - R.pdf'; the       *)
(* reference R is 'P-VST-00n' (kind "VST"), 'P - <date>' (kind "DATE") or  *)
(* 'P - <nc sequence n>' (kind "NC").                                      *)
(***************************************************************************)
FolderNameOf(text) == <<text, 0, 0>>
MonthFolderName(d) == <<"", d[1], d[2]>>
NameLikeMonth(name, d) == name[2] = d[1] /\ name[3] = d[2]

VisitRef(p, n) == [kind |-> "VST", p |-> p, n |-> n, d |-> NoDate]
NCRef(p, n) == [kind |-> "NC", p |-> p, n |-> n, d |-> NoDate]
DateRef(p, d) == [kind |-> "DATE", p |-> p, n |-> 0, d |-> d]

UnsignedReportName(ref) == [signed |-> FALSE, ref |-> ref]
SignedReportName(ref) == [signed |-> TRUE, ref |-> ref]

(* 'Signed' in name *)
HasSigned(name) == name.signed

(* name.replace('Signed Visit Report - ', 'Visit Report - ')               *)
(*     .replace('Signed ', '').replace(' - Signed', '').strip()            *)
BaseName(name) == [name EXCEPT !.signed = FALSE]

(* name.split('-VST-')[-1].split('.')[0] if '-VST-' in name else '':       *)
(* the padded number after -VST-, 0 standing for the empty string          *)
VstKey(name) == IF name.ref.kind = "VST" THEN name.ref.n ELSE 0

(* other ilike key: the empty key matches every name; a padded number      *)
(* occurs only in the names that carry it after -VST-                      *)
NameILike(other, key) == key = 0 \/ (other.ref.kind = "VST" /\ other.ref.n = key)

(***************************************************************************)
(* Records installed with the module (data/folder_data.xml and             *)
(* data/ir_sequence_data.xml).                                             *)
(***************************************************************************)
SignedReportsRoot == 1
NotContractedRoot == 2
NCSequenceCode == "not.contracted.visit"

InstalledFolders ==
    { [id |-> SignedReportsRoot, name |-> FolderNameOf("Signed Reports"), parent_id |-> 0],
      [id |-> NotContractedRoot, name |-> FolderNameOf("Not Contracted Visits"), parent_id |-> 0] }

InstalledSequences == { [id |-> 1, code |-> NCSequenceCode, number_next |-> 1] }

(***************************************************************************)
(* State.                                                                  *)
(***************************************************************************)
VARIABLES
    contracts,      \* visit.contract: c -> record
    folders,        \* visit.folder records
    documents,      \* visit.document records
    visits,         \* company.visit records
    ncvisits,       \* not.contracted.visit records
    sequences,      \* ir.sequence records
    signRequests,   \* sign.request records
    nextId,         \* per-table id counters
    document_count, \* visit.folder.document_count as stored: folder id -> count
    activities,     \* mail.activity: contract -> number of expiry reminders on it
    today,          \* index into TriggerDates: fields.Date.today()
    last,           \* the last operation performed and what it returned
    generated,      \* the contracts a monthly-generation run has reached this period
    txns,           \* requests in flight: what each has read so far
    call            \* a call of _get_visit_dates_for_month: arguments and result

dbvars == <<contracts, folders, documents, visits, ncvisits, sequences, signRequests, nextId,
            document_count, activities>>
vars == <<contracts, folders, documents, visits, ncvisits, sequences, signRequests, nextId,
          document_count, activities, today, last, generated, txns, call>>

DB == [contracts |-> contracts, folders |-> folders, documents |-> documents,
       visits |-> visits, ncvisits |-> ncvisits, sequences |-> sequences,
       signRequests |-> signRequests, nextId |-> nextId,
       document_count |-> document_count, activities |-> activities]

Commit(S) ==
    /\ contracts' = S.contracts
    /\ folders' = S.folders
    /\ documents' = S.documents
    /\ visits' = S.visits
    /\ ncvisits' = S.ncvisits
    /\ sequences' = S.sequences
    /\ signRequests' = S.signRequests
    /\ nextId' = S.nextId
    /\ document_count' = S.document_count
    /\ activities' = S.activities

Today == TriggerDates[today]

Lookup(set, id) == CHOOSE r \in set : r.id = id
Ids(set) == {r.id : r \in set}
MinId(set) == IF set = {} THEN 0 ELSE CHOOSE i \in Ids(set) : \A j \in Ids(set) : i <= j

(***************************************************************************)
(* visit.document                                                          *)
(***************************************************************************)
(* sum(child.document_count for child in folder.child_folder_ids), over   *)
(* the folder ids children                                                 *)
RECURSIVE SumDocumentCount(_, _)
SumDocumentCount(S, children) ==
    IF children = {} THEN 0
    ELSE LET child == CHOOSE g \in children : TRUE
         IN S.document_count[child] + SumDocumentCount(S, children \ {child})

(* VisitFolder._compute_document_count for one folder *)
ComputeDocumentCount(S, folder) ==
    Cardinality({d \in S.documents : d.folder_id = folder})
    + SumDocumentCount(S, {g.id : g \in {h \in S.folders : h.parent_id = folder}})

(* a variant that recomputes the folder and none of its ancestors *)
RecomputeFolderOnly(S, folder) ==
    IF folder \notin Ids(S.folders) THEN S
    ELSE [S EXCEPT !.document_count[folder] = ComputeDocumentCount(S, folder)]

(* the recomputation that @api.depends('document_ids',                     *)
(* 'child_folder_ids.document_count') triggers when the documents of a     *)
(* folder change: the folder, then its parent, up to the root              *)
RECURSIVE Recompute(_, _)
Recompute(S, folder) ==
    IF folder \notin Ids(S.folders) THEN S
    ELSE Recompute([S EXCEPT !.document_count[folder] = ComputeDocumentCount(S, folder)],
                   Lookup(S.folders, folder).parent_id)

(* unlink: many2one fields pointing at the document are set null, and the  *)
(* count of its folder is recomputed                                       *)
DocumentUnlink(S, id) ==
    Recompute(
        [S EXCEPT
            !.documents = {d \in @ : d.id # id},
            !.visits = {IF v.report_document_id = id
                        THEN [v EXCEPT !.report_document_id = 0] ELSE v : v \in @},
            !.ncvisits = {IF v.report_document_id = id
                          THEN [v EXCEPT !.report_document_id = 0] ELSE v : v \in @}],
        Lookup(S.documents, id).folder_id)

(* the three search domains of VisitDocument.create, tried in order *)
ExactMatches(docs, res) ==
    {d \in docs : d.folder_id = res.folder_id /\ d.name = BaseName(res.name) /\ d.id # res.id}

ReferenceMatches(docs, res) ==
    {d \in docs : /\ d.folder_id = res.folder_id
                  /\ NameILike(d.name, VstKey(res.name))
                  /\ ~HasSigned(d.name)
                  /\ d.id # res.id}

LastResortMatches(docs, res) ==
    {d \in docs : d.folder_id = res.folder_id /\ ~HasSigned(d.name) /\ d.id # res.id}

UnsignedDocFor(docs, res) ==
    IF ExactMatches(docs, res) # {} THEN MinId(ExactMatches(docs, res))
    ELSE IF ReferenceMatches(docs, res) # {} THEN MinId(ReferenceMatches(docs, res))
    ELSE MinId(LastResortMatches(docs, res))

DocumentCreate(S, vals) ==
    LET res == [id |-> S.nextId.document, name |-> vals.name, folder_id |-> vals.folder_id,
                visit_id |-> vals.visit_id,
                not_contracted_visit_id |-> vals.not_contracted_visit_id]
        S1 == Recompute([S EXCEPT !.documents = @ \cup {res}, !.nextId.document = @ + 1],
                        res.folder_id)
        unsigned_doc == UnsignedDocFor(S1.documents, res)
    IN IF HasSigned(res.name) /\ unsigned_doc # 0
       THEN DocumentUnlink(S1, unsigned_doc)
       ELSE S1

(***************************************************************************)
(* visit.folder: search([('name', '=', name), ('parent_id', '=', parent)], *)
(* limit=1) and create                                                     *)
(***************************************************************************)
FolderSearch(S, name, parent_id) ==
    MinId({f \in S.folders : f.name = name /\ f.parent_id = parent_id})

FolderCreate(S, name, parent_id) ==
    [S EXCEPT !.folders = @ \cup {[id |-> S.nextId.folder, name |-> name,
                                   parent_id |-> parent_id]},
              !.nextId.folder = @ + 1,
              !.document_count = @ @@ (S.nextId.folder :> 0)]

(* env.ref(xmlid): the installed record while it exists *)
RefExists(S, folder_id) == folder_id \in Ids(S.folders)

(***************************************************************************)
(* ir.sequence                                                             *)
(***************************************************************************)
SequenceSearch(S, code) == MinId({q \in S.sequences : q.code = code})

SequenceCreate(S, code) ==
    [S EXCEPT !.sequences = @ \cup {[id |-> S.nextId.sequence, code |-> code,
                                     number_next |-> 1]},
              !.nextId.sequence = @ + 1]

SequenceNumber(S, id) == Lookup(S.sequences, id).number_next

SequenceNextById(S, id) ==
    [S EXCEPT !.sequences = {IF q.id = id THEN [q EXCEPT !.number_next = @ + 1] ELSE q :
                                q \in @}]

(* a variant that removes the folder alone *)
SubtreeRootOnly(all_folders, ids) == ids

(* the folders that go with the folders ids: parent_id is ondelete cascade *)
RECURSIVE Subtree(_, _)
Subtree(all_folders, ids) ==
    LET children == {f.id : f \in {g \in all_folders : g.parent_id \in ids}}
    IN IF children \subseteq ids THEN ids ELSE Subtree(all_folders, ids \cup children)

(* visit.folder unlink: the subtree goes, with the documents stored in it  *)
(* (visit.document.folder_id is ondelete cascade); the many2one fields     *)
(* that pointed to a removed folder or document are set null               *)
(* (company.visit.folder_id, visit.contract.folder_id, report_document_id); *)
(* the counts of the folders above are recomputed                          *)
FolderUnlink(S, id) ==
    LET gone == Subtree(S.folders, {id})
        docs_gone == {d.id : d \in {e \in S.documents : e.folder_id \in gone}}
    IN Recompute(
           [S EXCEPT
               !.folders = {f \in @ : f.id \notin gone},
               !.document_count = [f \in (DOMAIN @) \ gone |-> @[f]],
               !.documents = {d \in @ : d.id \notin docs_gone},
               !.contracts = [c \in Contracts |->
                                IF @[c].folder_id \in gone THEN [@[c] EXCEPT !.folder_id = 0]
                                ELSE @[c]],
               !.visits = {[v EXCEPT !.folder_id = IF @ \in gone THEN 0 ELSE @,
                                     !.report_document_id = IF @ \in docs_gone THEN 0 ELSE @] :
                              v \in @},
               !.ncvisits = {[v EXCEPT !.report_document_id =
                                          IF @ \in docs_gone THEN 0 ELSE @] : v \in @}],
           Lookup(S.folders, id).parent_id)

(***************************************************************************)
(* company.visit                                                           *)
(***************************************************************************)
VisitSetReport(S, id, doc) ==
    [S EXCEPT !.visits = {IF v.id = id THEN [v EXCEPT !.report_document_id = doc] ELSE v :
                             v \in @}]

(* a variant that renders and stores a report whatever the visit has *)
CompanyVisitGenerateReportAlways(S, id, render_ok) ==
    LET self == Lookup(S.visits, id)
    IN IF ~render_ok \/ self.folder_id = 0 THEN S
       ELSE [DocumentCreate(S, [name |-> UnsignedReportName(self.name),
                                folder_id |-> self.folder_id,
                                visit_id |-> id,
                                not_contracted_visit_id |-> 0])
                EXCEPT !.visits = {IF v.id = id
                                   THEN [v EXCEPT !.report_document_id = S.nextId.document]
                                   ELSE v : v \in @}]

(* CompanyVisit._action_generate_report_document; render_ok is whether the *)
(* QWeb renderer returns (an exception is caught and logged)               *)
CompanyVisitGenerateReport(S, id, render_ok) ==
    LET self == Lookup(S.visits, id)
    IN IF self.report_document_id # 0 \/ self.folder_id = 0 THEN S
       ELSE IF ~render_ok THEN S
       ELSE VisitSetReport(
                DocumentCreate(S, [name |-> UnsignedReportName(self.name),
                                   folder_id |-> self.folder_id,
                                   visit_id |-> id,
                                   not_contracted_visit_id |-> 0]),
                id, S.nextId.document)

(* search_count([('contract_id', '=', contract.id)]) + 1 *)
NextVisitNumber(S, contract_id) ==
    Cardinality({v \in S.visits : v.contract_id = contract_id}) + 1

(* CompanyVisit.create for one vals, from the point where the search for   *)
(* the partner's sequence has returned found                               *)
CompanyVisitCreateFrom(S, vals, render_ok, found) ==
    LET partner == ContractPartner(vals.contract_id)
        S1 == IF found = 0 THEN SequenceCreate(S, partner) ELSE S
        sequence == IF found = 0 THEN S.nextId.sequence ELSE found
        S2 == SequenceNextById(S1, sequence)
        visit == [id |-> S.nextId.visit,
                  name |-> VisitRef(partner, SequenceNumber(S1, sequence)),
                  visit_number |-> NextVisitNumber(S, vals.contract_id),
                  contract_id |-> vals.contract_id,
                  folder_id |-> vals.folder_id,
                  visit_date |-> vals.visit_date,
                  state |-> "pending",
                  report_document_id |-> 0,
                  is_extra_visit |-> vals.is_extra_visit]
        S3 == [S2 EXCEPT !.visits = @ \cup {visit}, !.nextId.visit = @ + 1]
    IN CompanyVisitGenerateReport(S3, visit.id, render_ok)

(* CompanyVisit.create for one vals *)
CompanyVisitCreate(S, vals, render_ok) ==
    CompanyVisitCreateFrom(S, vals, render_ok,
                           SequenceSearch(S, ContractPartner(vals.contract_id)))

(* the search for the partner folder under 'Signed Reports' *)
PartnerFolderSearch(S, partner) == FolderSearch(S, FolderNameOf(partner), SignedReportsRoot)

(* "if not folder: folder = create(...)": found is what the search         *)
(* returned, 0 for the empty recordset                                     *)
FolderGetOrCreate(S, found, name, parent_id) ==
    IF found # 0 THEN S ELSE FolderCreate(S, name, parent_id)

FolderGot(S, found) == IF found # 0 THEN found ELSE S.nextId.folder

(* CompanyVisit._save_signed_report_to_folder, from the point where the    *)
(* search for the partner folder has returned found                        *)
CompanyVisitSaveSignedFrom(S, id, signed_pdf_data, found) ==
    LET self == Lookup(S.visits, id)
        partner == ContractPartner(self.contract_id)
        S1 == FolderGetOrCreate(S, found, FolderNameOf(partner), SignedReportsRoot)
        partner_folder == FolderGot(S, found)
    IN IF ~signed_pdf_data THEN S
       ELSE IF ~RefExists(S, SignedReportsRoot) THEN S
       ELSE DocumentCreate(S1, [name |-> SignedReportName(self.name),
                                folder_id |-> partner_folder,
                                visit_id |-> id,
                                not_contracted_visit_id |-> 0])

VisitWriteState(S, id, state) ==
    [S EXCEPT !.visits = {IF v.id = id THEN [v EXCEPT !.state = state] ELSE v : v \in @}]

(***************************************************************************)
(* not.contracted.visit                                                    *)
(***************************************************************************)
NCVisitSetReport(S, id, doc) ==
    [S EXCEPT !.ncvisits = {IF v.id = id THEN [v EXCEPT !.report_document_id = doc] ELSE v :
                               v \in @}]

(* the search for the month folder under 'Not Contracted Visits' *)
NCMonthFolderSearch(S, visit_date) ==
    FolderSearch(S, MonthFolderName(visit_date), NotContractedRoot)

(* NotContractedVisit._action_generate_report_document, from the point     *)
(* where the search for the month folder has returned found: no            *)
(* try/except, so a renderer failure propagates; the result is [raised, S] *)
NCVisitGenerateReportFrom(S, id, render_ok, found) ==
    LET self == Lookup(S.ncvisits, id)
        S1 == FolderGetOrCreate(S, found, MonthFolderName(self.visit_date), NotContractedRoot)
        month_folder == FolderGot(S, found)
    IN IF self.report_document_id # 0 THEN [raised |-> FALSE, S |-> S]
       ELSE IF ~RefExists(S, NotContractedRoot) THEN [raised |-> FALSE, S |-> S]
       ELSE IF ~render_ok THEN [raised |-> TRUE, S |-> S1]
       ELSE [raised |-> FALSE,
             S |-> NCVisitSetReport(
                       DocumentCreate(S1, [name |-> UnsignedReportName(
                                                        DateRef(self.partner_id, self.visit_date)),
                                           folder_id |-> month_folder,
                                           visit_id |-> 0,
                                           not_contracted_visit_id |-> id]),
                       id, S1.nextId.document)]

(* NotContractedVisit.create for one vals, after next_by_code returned     *)
(* number and the search for the month folder returned found: [raised, S]  *)
NCVisitCreateFrom(S, vals, render_ok, number, found) ==
    LET visit == [id |-> S.nextId.ncvisit,
                  name |-> NCRef(vals.partner_id, number),
                  partner_id |-> vals.partner_id,
                  visit_date |-> vals.visit_date,
                  state |-> "pending",
                  report_document_id |-> 0]
        S2 == [S EXCEPT !.ncvisits = @ \cup {visit}, !.nextId.ncvisit = @ + 1]
    IN NCVisitGenerateReportFrom(S2, visit.id, render_ok, found)

(* NotContractedVisit.create for one vals: [raised, S] *)
NCVisitCreate(S, vals, render_ok) ==
    LET sequence == SequenceSearch(S, NCSequenceCode)
    IN NCVisitCreateFrom(SequenceNextById(S, sequence), vals, render_ok,
                         SequenceNumber(S, sequence),
                         NCMonthFolderSearch(S, vals.visit_date))

(* NotContractedVisit._save_signed_report_to_folder, from the point where  *)
(* the search for the partner folder has returned found                    *)
NCVisitSaveSignedFrom(S, id, signed_pdf_data, found) ==
    LET self == Lookup(S.ncvisits, id)
        S1 == FolderGetOrCreate(S, found, FolderNameOf(self.partner_id), SignedReportsRoot)
        partner_folder == FolderGot(S, found)
    IN IF ~signed_pdf_data THEN S
       ELSE IF ~RefExists(S, SignedReportsRoot) THEN S
       ELSE DocumentCreate(S1, [name |-> SignedReportName(self.name),
                                folder_id |-> partner_folder,
                                visit_id |-> 0,
                                not_contracted_visit_id |-> id])

NCVisitWriteState(S, id, state) ==
    [S EXCEPT !.ncvisits = {IF v.id = id THEN [v EXCEPT !.state = state] ELSE v : v \in @}]

(***************************************************************************)
(* dateutil.relativedelta                                                  *)
(***************************************************************************)
DateLT(a, b) == ~DateLE(b, a)

(* d + relativedelta(months=i): the day is clipped to the month's length *)
AddMonths(d, i) ==
    LET total == (d[2] - 1) + i
        y == d[1] + (total \div 12)
        m == (total % 12) + 1
    IN <<y, m, IF d[3] > DaysInMonth(y, m) THEN DaysInMonth(y, m) ELSE d[3]>>

RECURSIVE AdjustMonths(_, _, _)
AdjustMonths(dt1, dt2, months) ==
    IF DateLT(dt1, dt2)
    THEN (IF DateLT(AddMonths(dt2, months), dt1) THEN AdjustMonths(dt1, dt2, months + 1)
          ELSE months)
    ELSE (IF DateLT(dt1, AddMonths(dt2, months)) THEN AdjustMonths(dt1, dt2, months - 1)
          ELSE months)

(* delta = relativedelta(dt1, dt2); delta.years * 12 + delta.months *)
RelativeMonths(dt1, dt2) ==
    AdjustMonths(dt1, dt2, (dt1[1] - dt2[1]) * 12 + (dt1[2] - dt2[2]))

(***************************************************************************)
(* visit.contract                                                          *)
(***************************************************************************)
(* the loop of action_start_contract: the month folder names, from i on *)
RECURSIVE MonthFolderNames(_, _, _, _)
MonthFolderNames(start_date, end_date, i, total_months) ==
    IF i > total_months THEN <<>>
    ELSE IF DateLT(end_date, AddMonths(start_date, i)) THEN <<>>
    ELSE <<MonthFolderName(AddMonths(start_date, i))>>
         \o MonthFolderNames(start_date, end_date, i + 1, total_months)

RECURSIVE FolderCreateChildren(_, _, _)
FolderCreateChildren(S, parent_id, names) ==
    IF names = <<>> THEN S
    ELSE FolderCreateChildren(FolderCreate(S, Head(names), parent_id), parent_id, Tail(names))

(* a variant that starts a contract whatever its state *)
ContractStartUnchecked(S, c) ==
    LET self == S.contracts[c]
        main_folder == S.nextId.folder
        S1 == FolderCreateChildren(FolderCreate(S, FolderNameOf(ContractPartner(c)), 0),
                                   main_folder,
                                   MonthFolderNames(self.start_date, self.end_date, 0,
                                       RelativeMonths(self.end_date, self.start_date)))
        S2 == IF self.folder_id = 0
              THEN [S1 EXCEPT !.contracts[c].folder_id = main_folder]
              ELSE S
    IN [raised |-> FALSE, S |-> [S2 EXCEPT !.contracts[c].state = "in_progress"]]

(* VisitContract.action_start_contract: [raised, S] *)
ContractStart(S, c) ==
    LET self == S.contracts[c]
        names == MonthFolderNames(self.start_date, self.end_date, 0,
                                  RelativeMonths(self.end_date, self.start_date))
        main_folder == S.nextId.folder
        S1 == FolderCreateChildren(FolderCreate(S, FolderNameOf(ContractPartner(c)), 0),
                                   main_folder, names)
        S2 == IF self.folder_id = 0
              THEN [S1 EXCEPT !.contracts[c].folder_id = main_folder]
              ELSE S
    IN IF self.state # "draft" THEN [raised |-> TRUE, S |-> S]
       ELSE [raised |-> FALSE, S |-> [S2 EXCEPT !.contracts[c].state = "in_progress"]]

(* search([('parent_id', '=', contract.folder_id), ('name', 'like', 'YYYY-MM%')], limit=1) *)
MonthFolderSearch(S, c, date) ==
    MinId({f \in S.folders : f.parent_id = S.contracts[c].folder_id
                             /\ NameLikeMonth(f.name, date)})

(* a variant that counts in the contract's main folder *)
ExistingVisitsInMainFolder(S, c, month_folder) ==
    Cardinality({v \in S.visits : v.contract_id = c
                                  /\ v.folder_id = S.contracts[c].folder_id})

(* search_count([('contract_id', '=', contract.id), ('folder_id', '=', month_folder.id)]) *)
ExistingVisits(S, c, month_folder) ==
    Cardinality({v \in S.visits : v.contract_id = c /\ v.folder_id = month_folder})

(* a variant that stops the batch after its first visit *)
CreateScheduledVisitsFirstOnly(S, c, month_folder, dates, rendered1, rendered2) ==
    IF dates = <<>> THEN S
    ELSE CompanyVisitCreate(S, [contract_id |-> c, visit_date |-> Head(dates),
                                folder_id |-> month_folder,
                                is_extra_visit |-> FALSE], S.nextId.visit \in rendered1)

(* the loop over calculated_dates: create, then generate the report again; *)
(* rendered1 and rendered2 are the visit ids for which the first and the   *)
(* second rendering attempt succeed                                        *)
RECURSIVE CreateScheduledVisits(_, _, _, _, _, _)
CreateScheduledVisits(S, c, month_folder, dates, rendered1, rendered2) ==
    IF dates = <<>> THEN S
    ELSE LET id == S.nextId.visit
             S1 == CompanyVisitCreate(S, [contract_id |-> c, visit_date |-> Head(dates),
                                          folder_id |-> month_folder,
                                          is_extra_visit |-> FALSE], id \in rendered1)
             S2 == IF month_folder # 0
                   THEN CompanyVisitGenerateReport(S1, id, id \in rendered2)
                   ELSE S1
         IN CreateScheduledVisits(S2, c, month_folder, Tail(dates), rendered1, rendered2)

(* the body of the loop of _cron_generate_monthly_visits for one contract: *)
(* [S, created, reached, existing]; reached says the run got as far as     *)
(* counting the existing visits, seen the visits its transaction reads     *)
CronContractFrom(S, c, date, rendered1, rendered2, seen) ==
    LET contract == S.contracts[c]
        month_folder == MonthFolderSearch(S, c, date)
        existing_visits == ExistingVisits([S EXCEPT !.visits = seen], c, month_folder)
        calculated_dates ==
            GetVisitDatesForMonth(contract.preferred, date, contract.visits_per_month)
    IN IF contract.folder_id = 0 \/ month_folder = 0
       THEN [S |-> S, created |-> 0, reached |-> FALSE, existing |-> 0]
       ELSE IF existing_visits = 0
       THEN [S |-> CreateScheduledVisits(S, c, month_folder, calculated_dates,
                                         rendered1, rendered2),
             created |-> Len(calculated_dates), reached |-> TRUE, existing |-> 0]
       ELSE [S |-> S, created |-> 0, reached |-> TRUE, existing |-> existing_visits]

CronContract(S, c, date, rendered1, rendered2) ==
    CronContractFrom(S, c, date, rendered1, rendered2, S.visits)

(* _cron_generate_monthly_visits over the contracts cs (a sequence, in     *)
(* search order): [S, total, log], log[c] the outcome for contract c       *)
RECURSIVE CronRun(_, _, _, _, _, _)
CronRun(S, cs, date, rendered1, rendered2, acc) ==
    IF cs = <<>> THEN [S |-> S, total |-> acc.total, log |-> acc.log]
    ELSE LET r == CronContract(S, Head(cs), date, rendered1, rendered2)
         IN CronRun(r.S, Tail(cs), date, rendered1, rendered2,
                    [total |-> acc.total + r.created,
                     log |-> [acc.log EXCEPT ![Head(cs)] =
                                 [created |-> r.created, reached |-> r.reached,
                                  existing |-> r.existing, first |-> FALSE]]])

(* self.search([('state', '=', 'in_progress')]), in id order *)
RECURSIVE InProgressFrom(_, _)
InProgressFrom(S, c) ==
    IF c \notin Contracts THEN <<>>
    ELSE (IF S.contracts[c].state = "in_progress" THEN <<c>> ELSE <<>>)
         \o InProgressFrom(S, c + 1)

CronContracts(S, specific) == IF specific # 0 THEN <<specific>> ELSE InProgressFrom(S, 1)

NoCronLog ==
    [c \in Contracts |-> [created |-> 0, reached |-> FALSE, existing |-> 0, first |-> FALSE]]

CronGenerateMonthlyVisits(S, specific, date, rendered1, rendered2) ==
    CronRun(S, CronContracts(S, specific), date, rendered1, rendered2,
            [total |-> 0, log |-> NoCronLog])

(* _cron_generate_monthly_visits in a transaction whose snapshot holds the *)
(* visits seen: search_count reads the snapshot                            *)
RECURSIVE CronRunFrom(_, _, _, _, _, _, _)
CronRunFrom(S, cs, date, rendered1, rendered2, acc, seen) ==
    IF cs = <<>> THEN [S |-> S, total |-> acc.total, log |-> acc.log]
    ELSE LET r == CronContractFrom(S, Head(cs), date, rendered1, rendered2, seen)
         IN CronRunFrom(r.S, Tail(cs), date, rendered1, rendered2,
                        [total |-> acc.total + r.created,
                         log |-> [acc.log EXCEPT ![Head(cs)] =
                                     [created |-> r.created, reached |-> r.reached,
                                      existing |-> r.existing, first |-> FALSE]]],
                        seen)

(* ExtraVisitWizard.action_create_extra_visits, the creation loop *)
RECURSIVE CreateExtraVisits(_, _, _, _, _, _)
CreateExtraVisits(S, c, month_folder, n, rendered1, rendered2) ==
    IF n <= 0 THEN S
    ELSE LET id == S.nextId.visit
             S1 == CompanyVisitCreate(S, [contract_id |-> c, visit_date |-> Today,
                                          folder_id |-> month_folder,
                                          is_extra_visit |-> TRUE], id \in rendered1)
             S2 == CompanyVisitGenerateReport(S1, id, id \in rendered2)
         IN CreateExtraVisits(S2, c, month_folder, n - 1, rendered1, rendered2)

(* a variant without the validation of number_of_visits *)
WizardCreateExtraVisitsUnchecked(S, c, month_folder, number_of_visits, rendered1, rendered2) ==
    [raised |-> FALSE,
     S |-> CreateExtraVisits(S, c, month_folder, number_of_visits, rendered1, rendered2)]

(* a variant whose loop stops one visit early *)
WizardCreateExtraVisitsOneLess(S, c, month_folder, number_of_visits, rendered1, rendered2) ==
    IF number_of_visits <= 0 THEN [raised |-> TRUE, S |-> S]
    ELSE [raised |-> FALSE,
          S |-> CreateExtraVisits(S, c, month_folder, number_of_visits - 1,
                                  rendered1, rendered2)]

(* ExtraVisitWizard.action_create_extra_visits: [raised, S] *)
WizardCreateExtraVisits(S, c, month_folder, number_of_visits, rendered1, rendered2) ==
    IF number_of_visits <= 0 THEN [raised |-> TRUE, S |-> S]
    ELSE [raised |-> FALSE,
          S |-> CreateExtraVisits(S, c, month_folder, number_of_visits, rendered1, rendered2)]

(***************************************************************************)
(* sign.request                                                            *)
(***************************************************************************)
(* CompanyVisit.action_send_report_by_email and                            *)
(* NotContractedVisit.action_send_report_for_signature: the sign.request   *)
(* they create                                                             *)
SignRequestCreate(S, company_visit_id, not_contracted_visit_id) ==
    [S EXCEPT !.signRequests = @ \cup {[id |-> S.nextId.sign,
                                        company_visit_id |-> company_visit_id,
                                        not_contracted_visit_id |-> not_contracted_visit_id,
                                        completed_document |-> FALSE]},
              !.nextId.sign = @ + 1]

(* the partner whose folder the completion of record looks up *)
SignPartner(S, record) ==
    IF record.company_visit_id # 0
    THEN ContractPartner(Lookup(S.visits, record.company_visit_id).contract_id)
    ELSE IF record.not_contracted_visit_id # 0
    THEN Lookup(S.ncvisits, record.not_contracted_visit_id).partner_id
    ELSE ""

(* the contracted branch of SignRequest.write *)
SignWriteContracted(S, record, found) ==
    LET S1 == CompanyVisitSaveSignedFrom(S, record.company_visit_id,
                                         record.completed_document, found)
    IN IF record.company_visit_id = 0 THEN S
       ELSE IF Lookup(S1.visits, record.company_visit_id).state = "pending"
       THEN VisitWriteState(S1, record.company_visit_id, "done")
       ELSE S1

(* the non-contracted branch of SignRequest.write *)
SignWriteNotContracted(S, record, found) ==
    LET S1 == NCVisitSaveSignedFrom(S, record.not_contracted_visit_id,
                                    record.completed_document, found)
    IN IF record.not_contracted_visit_id = 0 THEN S
       ELSE IF Lookup(S1.ncvisits, record.not_contracted_visit_id).state = "pending"
       THEN NCVisitWriteState(S1, record.not_contracted_visit_id, "done")
       ELSE S1

(* a variant that handles the completion at every write *)
SignRequestWriteAlways(S, id, completed, found) ==
    LET S0 == [S EXCEPT !.signRequests =
                   {IF r.id = id /\ completed THEN [r EXCEPT !.completed_document = TRUE]
                    ELSE r : r \in @}]
        record == [Lookup(S0.signRequests, id) EXCEPT !.completed_document = TRUE]
    IN SignWriteNotContracted(SignWriteContracted(S0, record, found), record, found)

(* SignRequest.write(vals), where the search for the partner folder        *)
(* returns found; completed says vals carries completed_document           *)
SignRequestWriteFrom(S, id, completed, found) ==
    LET S0 == [S EXCEPT !.signRequests =
                   {IF r.id = id /\ completed THEN [r EXCEPT !.completed_document = TRUE]
                    ELSE r : r \in @}]
        record == Lookup(S0.signRequests, id)
    IN IF completed
       THEN SignWriteNotContracted(SignWriteContracted(S0, record, found), record, found)
       ELSE S0

(* SignRequest.write(vals) *)
SignRequestWrite(S, id, completed) ==
    SignRequestWriteFrom(S, id, completed,
                         PartnerFolderSearch(S, SignPartner(S, Lookup(S.signRequests, id))))

(* SignRequest.action_done (sign_request.py): the linked visits are        *)
(* written done whatever their state                                       *)
SignRequestDone(S, id) ==
    LET record == Lookup(S.signRequests, id)
        S1 == IF record.company_visit_id # 0
              THEN VisitWriteState(S, record.company_visit_id, "done") ELSE S
    IN IF record.not_contracted_visit_id # 0
       THEN NCVisitWriteState(S1, record.not_contracted_visit_id, "done") ELSE S1

(* a variant that closes the gap in the numbers of the contract's visits *)
CompanyVisitUnlinkRenumber(S, id, sign_cascade) ==
    LET self == Lookup(S.visits, id)
    IN [S EXCEPT
           !.visits = {IF v.contract_id = self.contract_id /\ v.visit_number > self.visit_number
                       THEN [v EXCEPT !.visit_number = @ - 1] ELSE v :
                          v \in {w \in @ : w.id # id}},
           !.documents = {d \in @ : d.visit_id # id},
           !.signRequests =
               IF sign_cascade THEN {r \in @ : r.company_visit_id # id}
               ELSE {IF r.company_visit_id = id THEN [r EXCEPT !.company_visit_id = 0] ELSE r :
                        r \in @}]

(* company.visit unlink: documents go with the visit (visit_id is ondelete *)
(* cascade); sign.request.company_visit_id is declared twice, once cascade *)
(* and once set null, and the module load order decides which one holds;   *)
(* the database deletes the documents, so no folder count is recomputed    *)
CompanyVisitUnlink(S, id, sign_cascade) ==
    [S EXCEPT
        !.visits = {v \in @ : v.id # id},
        !.documents = {d \in @ : d.visit_id # id},
        !.signRequests =
            IF sign_cascade THEN {r \in @ : r.company_visit_id # id}
            ELSE {IF r.company_visit_id = id THEN [r EXCEPT !.company_visit_id = 0] ELSE r :
                     r \in @}]

(***************************************************************************)
(* Bookkeeping of the operations.                                          *)
(***************************************************************************)
(* what the wizard was given and met: the selected month folder and the    *)
(* visits for which the renderer returned at one of the two attempts       *)
NoArg == [folder |-> 0, rendered |-> {}]

Op(op, id, n, ok) ==
    [op |-> op, id |-> id, n |-> n, ok |-> ok, log |-> NoCronLog, arg |-> NoArg]

InBounds(S) ==
    /\ S.nextId.visit <= MaxVisits + 1
    /\ S.nextId.ncvisit <= MaxNCVisits + 1
    /\ S.nextId.document <= MaxDocs + 1
    /\ S.nextId.sign <= MaxSignRequests + 1

NoCall == [preferred |-> {}, target_date |-> NoDate, required_visits |-> 0,
           result |-> <<>>, returned |-> FALSE]

(***************************************************************************)
(* Initial state: the module is installed, the contracts are drafts.       *)
(***************************************************************************)
InitContracts ==
    contracts \in {f \in [Contracts -> UNION {ContractChoices(c) : c \in Contracts}] :
                      \A c \in Contracts : f[c] \in ContractChoices(c)}

InitRecords ==
    /\ folders = InstalledFolders
    /\ documents = {}
    /\ visits = {}
    /\ ncvisits = {}
    /\ sequences = InstalledSequences
    /\ signRequests = {}
    /\ nextId = [folder |-> 3, document |-> 1, visit |-> 1, ncvisit |-> 1,
                 sequence |-> 2, sign |-> 1]
    /\ document_count = [f \in Ids(InstalledFolders) |-> 0]
    /\ activities = [c \in Contracts |-> 0]
    /\ today = 1
    /\ last = Op("init", 0, 0, TRUE)
    /\ generated = {}
    /\ txns = {}

Init ==
    /\ InitContracts
    /\ InitRecords
    /\ call = NoCall

(***************************************************************************)
(* Operations.                                                             *)
(***************************************************************************)
ActionStartContract(c) ==
    LET r == ContractStart(DB, c)
    IN /\ Commit(r.S)
       /\ last' = Op("start_contract", c, 0, ~r.raised)
       /\ UNCHANGED <<today, generated, txns, call>>

(* the scheduled run (specific = 0) or action_generate_current_month_visits *)
(* of one contract; the renderer may fail for any of the new visits         *)
GenerateMonthlyVisits(specific) ==
    LET dry == CronGenerateMonthlyVisits(DB, specific, Today, {}, {})
        new_ids == nextId.visit .. (nextId.visit + dry.total - 1)
    IN /\ InBounds(dry.S)
       /\ \E rendered1 \in SUBSET new_ids :
            \E rendered2 \in SUBSET new_ids :
              LET r == CronGenerateMonthlyVisits(DB, specific, Today, rendered1, rendered2)
              IN /\ Commit(r.S)
                 /\ last' = [op |-> "generate", id |-> specific, n |-> r.total, ok |-> TRUE,
                             log |-> [c \in Contracts |->
                                        [r.log[c] EXCEPT !.first = r.log[c].reached /\ c \notin generated]],
                             arg |-> NoArg]
                 /\ generated' = generated \cup {c \in Contracts : r.log[c].reached}
                 /\ UNCHANGED <<today, txns, call>>

CronGenerate == GenerateMonthlyVisits(0)

ActionGenerateCurrentMonthVisits(c) == GenerateMonthlyVisits(c)

(* the wizard offers the folders whose parent is the contract's main folder *)
ActionCreateExtraVisits(c, month_folder, number_of_visits) ==
    LET new_ids == nextId.visit .. (nextId.visit + number_of_visits - 1)
    IN /\ contracts[c].folder_id # 0
       /\ Lookup(folders, month_folder).parent_id = contracts[c].folder_id
       /\ nextId.visit + number_of_visits <= MaxVisits + 1
       /\ \E rendered1 \in SUBSET new_ids :
            \E rendered2 \in SUBSET new_ids :
              LET r == WizardCreateExtraVisits(DB, c, month_folder, number_of_visits,
                                               rendered1, rendered2)
              IN /\ InBounds(r.S)
                 /\ Commit(r.S)
                 /\ last' = [Op("extra_visits", c, number_of_visits, ~r.raised) EXCEPT
                                !.arg = [folder |-> month_folder,
                                         rendered |-> rendered1 \cup rendered2]]
                 /\ UNCHANGED <<today, generated, txns, call>>

(* a visit created from the form: company.visit create with one vals; n is *)
(* 1 when the renderer returned                                            *)
VisitCreate(c, folder_id, render_ok) ==
    LET S1 == CompanyVisitCreate(DB, [contract_id |-> c, visit_date |-> Today,
                                      folder_id |-> folder_id,
                                      is_extra_visit |-> FALSE], render_ok)
    IN /\ IF folder_id = 0 THEN TRUE
          ELSE /\ contracts[c].folder_id # 0
               /\ Lookup(folders, folder_id).parent_id = contracts[c].folder_id
       /\ InBounds(S1)
       /\ Commit(S1)
       /\ last' = Op("visit_create", nextId.visit, IF render_ok THEN 1 ELSE 0, TRUE)
       /\ UNCHANGED <<today, generated, txns, call>>

VisitUnlink(id, sign_cascade) ==
    /\ Commit(CompanyVisitUnlink(DB, id, sign_cascade))
    /\ last' = Op("visit_unlink", id, 0, TRUE)
    /\ UNCHANGED <<today, generated, txns, call>>

(***************************************************************************)
(* Scheduling and numbering: contracts are started, visits are generated,  *)
(* added by the wizard, created from the form and deleted.                 *)
(***************************************************************************)
MonthFoldersOf(c) ==
    IF contracts[c].folder_id = 0 THEN {}
    ELSE {f.id : f \in {g \in folders : g.parent_id = contracts[c].folder_id}}

(* the contract whose visits users add and create by hand; the other one   *)
(* only receives generated visits                                          *)
ManualContracts == {1}

Next ==
    \/ \E c \in Contracts : ActionStartContract(c)
    \/ CronGenerate
    \/ \E c \in Contracts : ActionGenerateCurrentMonthVisits(c)
    \/ \E c \in ManualContracts : \E f \in MonthFoldersOf(c) : \E n \in -1..MaxExtra :
          ActionCreateExtraVisits(c, f, n)
    \/ \E c \in ManualContracts : VisitCreate(c, 0, TRUE)
    \/ \E v \in Ids(visits) : VisitUnlink(v, FALSE)

Spec == Init /\ [][Next]_vars

(***************************************************************************)
(* Properties of scheduling and numbering.                                 *)
(***************************************************************************)
Quota(c) == contracts[c].visits_per_month

(* the visits the last operation created *)
NewVisitsOf(c) == {v \in visits : v.contract_id = c /\ v.id >= nextId.visit - last.n}

(* C1 as stated: for an in-progress contract with a root folder, a month   *)
(* folder for the current period and visits_per_month >= 1, two runs of    *)
(* monthly generation in a row, the first of them the first run of the     *)
(* period that reaches the contract, create visits_per_month visits and    *)
(* then zero visits, whatever other contracts the runs process.            *)
C1_TwoRunsAsStated ==
    [][(last.op = "generate" /\ last'.op = "generate")
          => \A c \in Contracts :
                (/\ Quota(c) >= 1
                 /\ contracts[c].state = "in_progress"
                 /\ last.log[c].reached /\ last.log[c].first
                 /\ last'.log[c].reached)
                   => (last.log[c].created = Quota(c) /\ last'.log[c].created = 0)]_vars

(* C1 amended: the same, for a contract that has no visit in the month     *)
(* folder before the first of the two runs.                                *)
C1_TwoRunsIdempotent ==
    [][(last.op = "generate" /\ last'.op = "generate")
          => \A c \in Contracts :
                (/\ Quota(c) >= 1
                 /\ contracts[c].state = "in_progress"
                 /\ last.log[c].reached /\ last.log[c].existing = 0
                 /\ last'.log[c].reached)
                   => (last.log[c].created = Quota(c) /\ last'.log[c].created = 0)]_vars

(* a second scheduled run has just found the visits of the first one, with *)
(* another contract processed in the same run                              *)
C1_Witness ==
    /\ last.op = "generate" /\ last.id = 0
    /\ \E c \in Contracts :
          /\ last.log[c].reached /\ ~last.log[c].first
          /\ last.log[c].created = 0
          /\ Quota(c) >= 1 /\ last.log[c].existing = Quota(c)
          /\ \E o \in Contracts \ {c} : last.log[o].reached

(* C2: no two existing visits of one contract carry the same visit_number, *)
(* and a visit created later (a larger id) has the larger visit_number.    *)
C2_VisitNumbersUniqueAndIncreasing ==
    \A v \in visits : \A w \in visits :
        (v.contract_id = w.contract_id /\ v.id < w.id) => v.visit_number < w.visit_number

C23_AtMostOneDraftPerVisit ==
    \A v \in visits :
       Cardinality({d \in documents : d.visit_id = v.id /\ ~HasSigned(d.name)}) <= 1

(* a run or the wizard asked twice for the report of each new visit, and   *)
(* one of them has its draft                                               *)
C23_Witness ==
    /\ last.op \in {"generate", "extra_visits"}
    /\ last.n >= 1
    /\ \E v \in visits :
          /\ v.report_document_id # 0
          /\ {d.id : d \in {e \in documents : e.visit_id = v.id /\ ~HasSigned(e.name)}}
                = {v.report_document_id}

(* C12: the wizard called with number_of_visits <= 0 is rejected and       *)
(* leaves every record as it was: no visit and no document is created.     *)
C12_NonPositiveExtraVisitsRejected ==
    [][(last'.op = "extra_visits" /\ last'.n <= 0)
          => (~last'.ok /\ dbvars' = dbvars)]_vars

C12_Witness ==
    /\ last.op = "extra_visits"
    /\ last.n <= 0
    /\ ~last.ok
    /\ contracts[last.id].state = "in_progress"
    /\ last.arg.folder \in MonthFoldersOf(last.id)

(* C13: the wizard called with number_of_visits = n > 0 creates exactly n  *)
(* visits and touches no other; each new visit belongs to the wizard's     *)
(* contract, lies in the selected month folder, is flagged extra and is    *)
(* pending; and each one has its draft report whenever the renderer        *)
(* returned at one of the attempts made for it.                            *)
C13_ExtraVisitsCreated ==
    [][(last'.op = "extra_visits" /\ last'.n > 0) =>
          /\ visits \subseteq visits'
          /\ Cardinality(visits' \ visits) = last'.n
          /\ \A v \in visits' \ visits :
                /\ v.contract_id = last'.id
                /\ v.folder_id = last'.arg.folder
                /\ v.is_extra_visit
                /\ v.state = "pending"
                /\ (v.id \in last'.arg.rendered) <=> (v.report_document_id # 0)
                /\ v.report_document_id # 0 =>
                      \E d \in documents' : /\ d.id = v.report_document_id
                                            /\ d.visit_id = v.id
                                            /\ d.folder_id = v.folder_id
                                            /\ d.name = UnsignedReportName(v.name)]_vars

C13_Witness ==
    /\ last.op = "extra_visits"
    /\ last.ok
    /\ last.n = MaxExtra
    /\ \E v, w \in visits :
          /\ v.id >= nextId.visit - last.n
          /\ w.id >= nextId.visit - last.n
          /\ v.is_extra_visit /\ w.is_extra_visit
          /\ v.report_document_id # 0
          /\ w.report_document_id = 0

(***************************************************************************)
(* Reports and signatures: visits of both kinds are created with their     *)
(* draft report, sent for signature, and the completion of the signature   *)
(* request stores the signed report; users also upload documents.          *)
(***************************************************************************)
MaxFlowVisits == 2

(* NotContractedVisit.create from the form; a renderer failure propagates  *)
(* and the transaction is rolled back; no_gap says whether the sequence    *)
(* 'not.contracted.visit' takes part in the rollback; n is 1 when the      *)
(* renderer returned                                                       *)
NCVisitCreateAction(partner, render_ok, no_gap) ==
    LET r == NCVisitCreate(DB, [partner_id |-> partner, visit_date |-> Today], render_ok)
        sequence == SequenceSearch(DB, NCSequenceCode)
    IN /\ SequenceNumber(DB, sequence) <= MaxNCVisits
       /\ InBounds(r.S)
       /\ IF r.raised
          THEN Commit(IF no_gap THEN DB ELSE SequenceNextById(DB, sequence))
          ELSE Commit(r.S)
       /\ last' = Op("nc_create", nextId.ncvisit, IF render_ok THEN 1 ELSE 0, ~r.raised)
       /\ UNCHANGED <<today, generated, txns, call>>

(* CompanyVisit.action_send_report_by_email, up to the sign.request *)
ActionSendReportByEmail(id) ==
    LET S1 == SignRequestCreate(DB, id, 0)
    IN /\ InBounds(S1)
       /\ Commit(S1)
       /\ last' = Op("send", nextId.sign, 0, TRUE)
       /\ UNCHANGED <<today, generated, txns, call>>

(* NotContractedVisit.action_send_report_for_signature *)
NCActionSendReportForSignature(id) ==
    LET S1 == SignRequestCreate(DB, 0, id)
    IN /\ InBounds(S1)
       /\ Commit(S1)
       /\ last' = Op("nc_send", nextId.sign, 0, TRUE)
       /\ UNCHANGED <<today, generated, txns, call>>

(* SignRequest.write: n is 1 when vals carries the completed document *)
SignRequestWriteAction(id, completed) ==
    LET S1 == SignRequestWrite(DB, id, completed)
    IN /\ InBounds(S1)
       /\ Commit(S1)
       /\ last' = Op("sign_write", id, IF completed THEN 1 ELSE 0, TRUE)
       /\ UNCHANGED <<today, generated, txns, call>>

(* VisitDocument.create from the documents view: n is the number of        *)
(* documents the creation removed                                          *)
DocumentCreateAction(name, folder_id) ==
    LET S1 == DocumentCreate(DB, [name |-> name, folder_id |-> folder_id,
                                  visit_id |-> 0, not_contracted_visit_id |-> 0])
    IN /\ InBounds(S1)
       /\ Commit(S1)
       /\ last' = Op("document_create", nextId.document,
                     Cardinality(documents) + 1 - Cardinality(S1.documents), TRUE)
       /\ UNCHANGED <<today, generated, txns, call>>

(* what users upload: signed copies of the reports that exist, into the    *)
(* folders that hold documents                                             *)
Uploads == {[name |-> SignedReportName(d.name.ref), folder_id |-> d.folder_id] :
               d \in documents}

(* the clients of the non-contracted visits *)
FlowPartners == {"ClientA"}

(* one configuration of the contracts *)
FlowContracts ==
    /\ InitContracts
    /\ contracts[1].preferred = {}
    /\ contracts[2].visits_per_month = 1
    /\ contracts[2].end_date = <<2025, 3, 31>>

InitSign ==
    /\ FlowContracts
    /\ InitRecords
    /\ call = NoCall

NextSign ==
    \/ \E c \in ManualContracts : ActionStartContract(c)
    \/ \E c \in ManualContracts : \E f \in MonthFoldersOf(c) : \E render_ok \in BOOLEAN :
          /\ nextId.visit <= MaxFlowVisits
          /\ VisitCreate(c, f, render_ok)
    \/ \E p \in FlowPartners : \E render_ok, no_gap \in BOOLEAN :
          NCVisitCreateAction(p, render_ok, no_gap)
    \/ \E v \in Ids(visits) : ActionSendReportByEmail(v)
    \/ \E v \in Ids(ncvisits) : NCActionSendReportForSignature(v)
    \/ \E r \in Ids(signRequests) : \E completed \in BOOLEAN :
          SignRequestWriteAction(r, completed)
    \/ \E u \in Uploads : DocumentCreateAction(u.name, u.folder_id)

SpecSign == InitSign /\ [][NextSign]_vars

(***************************************************************************)
(* Properties of reports and signatures.                                   *)
(***************************************************************************)
ReportsOfVisit(docs, id) == {d \in docs : d.visit_id = id}

ReportsOfNCVisit(docs, id) == {d \in docs : d.not_contracted_visit_id = id}

OnlySigned(docs) == Cardinality(docs) = 1 /\ \A d \in docs : HasSigned(d.name)

HasDraft(docs) == \E d \in docs : ~HasSigned(d.name)

Completion(r) == last'.op = "sign_write" /\ last'.id = r.id /\ last'.n = 1

(* C3: when the completion of a signature request is handled for a visit   *)
(* (contracted or not) that had an unsigned draft report, the draft is     *)
(* gone afterwards and the visit's only document is the signed one.        *)
C3_DraftGoneAfterSigning ==
    [][\A r \in signRequests : Completion(r) =>
          /\ (r.company_visit_id # 0
                /\ HasDraft(ReportsOfVisit(documents, r.company_visit_id)))
             => OnlySigned(ReportsOfVisit(documents', r.company_visit_id))
          /\ (r.not_contracted_visit_id # 0
                /\ HasDraft(ReportsOfNCVisit(documents, r.not_contracted_visit_id)))
             => OnlySigned(ReportsOfNCVisit(documents', r.not_contracted_visit_id))]_vars

SameReport(docs, res) ==
    {d \in docs : d.folder_id = res.folder_id /\ d.name.ref = res.name.ref}

(* C4: a step that creates a document with 'Signed' in its name in a       *)
(* folder that holds the unsigned document with the matching name leaves   *)
(* exactly one document of that report in the folder, the new signed one.  *)
C4_SignedReplacesUnsignedInFolder ==
    [][\A res \in documents' :
          (/\ res.id = nextId.document
           /\ HasSigned(res.name)
           /\ \E d \in documents : d.folder_id = res.folder_id /\ d.name = BaseName(res.name))
          => SameReport(documents', res) = {res}]_vars

(* C5: handling the completion of a signature request a second time        *)
(* changes nothing: no document, visit or folder is added or modified.     *)
C5_SecondCompletionChangesNothing ==
    [][\A r \in signRequests : (r.completed_document /\ Completion(r)) =>
          /\ documents' = documents
          /\ visits' = visits
          /\ ncvisits' = ncvisits
          /\ folders' = folders]_vars

(* C6: right after the completion of a signature request stored the signed *)
(* report, the visit's report_document_id is the signed document.          *)
C6_ReportPointsToSignedDocument ==
    (last.op = "sign_write" /\ last.n = 1) =>
        \A r \in signRequests : r.id = last.id =>
            /\ r.company_visit_id # 0 =>
                 \E d \in ReportsOfVisit(documents, r.company_visit_id) :
                     /\ HasSigned(d.name)
                     /\ \A v \in visits : v.id = r.company_visit_id
                                             => v.report_document_id = d.id
            /\ r.not_contracted_visit_id # 0 =>
                 \E d \in ReportsOfNCVisit(documents, r.not_contracted_visit_id) :
                     /\ HasSigned(d.name)
                     /\ \A v \in ncvisits : v.id = r.not_contracted_visit_id
                                               => v.report_document_id = d.id

(* C9: a creation during which the renderer fails still creates the visit, *)
(* contracted or not; the visit merely has no report document.             *)
C9_RendererFailureKeepsVisit ==
    /\ (last.op = "visit_create" /\ last.n = 0) =>
          \E v \in visits : v.id = last.id /\ v.report_document_id = 0
    /\ (last.op = "nc_create" /\ last.n = 0) =>
          \E v \in ncvisits : v.id = last.id /\ v.report_document_id = 0

(* C20: a step that creates a document with 'Signed' in its name removes   *)
(* at most one document, and a removed document is unsigned, in the same   *)
(* folder, and named with the base name of the new one; without such a     *)
(* draft in the folder nothing is removed.                                 *)
C20_OnlyMatchingDraftDeleted ==
    [][\A res \in documents' :
          (res.id = nextId.document /\ HasSigned(res.name)) =>
             /\ Cardinality(documents \ documents') <= 1
             /\ \A d \in documents \ documents' :
                    /\ ~HasSigned(d.name)
                    /\ d.folder_id = res.folder_id
                    /\ d.name = BaseName(res.name)]_vars

(***************************************************************************)
(* The date computation on its own: _get_visit_dates_for_month is called   *)
(* on a contract with any weekday flags, for any target date and any       *)
(* number of required visits.                                              *)
(***************************************************************************)
DatePreferences == {{}, {0}, {6}, {0, 2}, {1, 3, 5}, {4, 5, 6}, {0, 1, 2, 3, 4, 5, 6}}

TargetDates == {<<2024, 2, 29>>, <<2025, 2, 1>>, <<2025, 3, 3>>, <<2025, 6, 30>>,
                <<2025, 12, 31>>, <<2026, 1, 1>>}

InitDates ==
    /\ FlowContracts
    /\ InitRecords
    /\ call \in [preferred : DatePreferences, target_date : TargetDates,
                 required_visits : 0..MaxRequired, result : {<<>>}, returned : {FALSE}]

GetVisitDatesCall ==
    /\ ~call.returned
    /\ call' = [call EXCEPT
                   !.result = GetVisitDatesForMonth(call.preferred, call.target_date,
                                                    call.required_visits),
                   !.returned = TRUE]
    /\ last' = Op("get_visit_dates", 0, call.required_visits, TRUE)
    /\ UNCHANGED <<dbvars, today, generated, txns>>

NextDates == GetVisitDatesCall

SpecDates == InitDates /\ [][NextDates]_vars

(* the days of the month of d that fall on a weekday of w *)
MatchingDays(w, d) ==
    {day \in 1..DaysInMonth(d[1], d[2]) : Weekday(<<d[1], d[2], day>>) \in w}

TimesUsed(result, date) == Cardinality({i \in DOMAIN result : result[i] = date})

(* C7: with a non-empty weekday preference and required_visits = q >= 1,   *)
(* the result has exactly q dates, every date lies in the month of the     *)
(* target date on a preferred weekday, the dates ascend, and any two       *)
(* matching days of the month are used a number of times that differs by   *)
(* at most one.                                                            *)
C7_RoundRobinDates ==
    (call.returned /\ call.preferred # {} /\ call.required_visits >= 1) =>
        LET d == call.target_date
            days == MatchingDays(call.preferred, d)
        IN /\ Len(call.result) = call.required_visits
           /\ \A i \in DOMAIN call.result :
                 /\ call.result[i][1] = d[1]
                 /\ call.result[i][2] = d[2]
                 /\ call.result[i][3] \in days
           /\ \A i, j \in DOMAIN call.result :
                 i < j => DateLE(call.result[i], call.result[j])
           /\ \A x, y \in days :
                 TimesUsed(call.result, <<d[1], d[2], x>>)
                    - TimesUsed(call.result, <<d[1], d[2], y>>) \in {-1, 0, 1}

C7_Witness ==
    /\ call.returned
    /\ call.preferred = {0, 2}
    /\ call.required_visits = MaxRequired
    /\ Len(call.result) = MaxRequired
    /\ \E i \in DOMAIN call.result : i > 1 /\ call.result[i] = call.result[i - 1]

(***************************************************************************)
(* Concurrent requests.  Each request runs in its own transaction, which   *)
(* reads the snapshot taken when it begins: the search for the folder      *)
(* returns what was committed then, and the rest of the handler commits    *)
(* later, after other requests may have committed.  The sequence           *)
(* 'not.contracted.visit' hands out its number outside the transaction.    *)
(* Two completions in flight are for different visits.                     *)
(***************************************************************************)
MaxInFlight == 2
MaxRaceVisits == 1

InFlightVisits ==
    {<<r.company_visit_id, r.not_contracted_visit_id>> :
        r \in {q \in signRequests : \E t \in txns : t.kind = "sign_write" /\ t.id = q.id}}

(* NotContractedVisit.create up to the search for the month folder *)
NCCreateBegin(p) ==
    LET sequence == SequenceSearch(DB, NCSequenceCode)
    IN /\ Cardinality(txns) < MaxInFlight
       /\ SequenceNumber(DB, sequence) <= MaxNCVisits
       /\ txns' = txns \cup {[kind |-> "nc_create", id |-> 0, partner |-> p,
                              number |-> SequenceNumber(DB, sequence),
                              found |-> NCMonthFolderSearch(DB, Today)]}
       /\ Commit(SequenceNextById(DB, sequence))
       /\ last' = Op("begin", 0, 0, TRUE)
       /\ UNCHANGED <<today, generated, call>>

(* the rest of NotContractedVisit.create and the commit, or the rollback   *)
(* when the renderer fails                                                 *)
NCCreateFinish(t, render_ok) ==
    LET r == NCVisitCreateFrom(DB, [partner_id |-> t.partner, visit_date |-> Today],
                               render_ok, t.number, t.found)
    IN /\ t.kind = "nc_create"
       /\ InBounds(r.S)
       /\ Commit(IF r.raised THEN DB ELSE r.S)
       /\ txns' = txns \ {t}
       /\ last' = Op("nc_create", nextId.ncvisit, IF render_ok THEN 1 ELSE 0, ~r.raised)
       /\ UNCHANGED <<today, generated, call>>

(* SignRequest.write carrying the completed document, up to the search for *)
(* the partner folder                                                      *)
SignCompletionBegin(id) ==
    LET record == Lookup(signRequests, id)
    IN /\ Cardinality(txns) < MaxInFlight
       /\ <<record.company_visit_id, record.not_contracted_visit_id>> \notin InFlightVisits
       /\ txns' = txns \cup {[kind |-> "sign_write", id |-> id,
                              partner |-> SignPartner(DB, record), number |-> 0,
                              found |-> PartnerFolderSearch(DB, SignPartner(DB, record))]}
       /\ last' = Op("begin", id, 0, TRUE)
       /\ UNCHANGED <<dbvars, today, generated, call>>

(* the rest of SignRequest.write and the commit *)
SignCompletionFinish(t) ==
    LET S1 == SignRequestWriteFrom(DB, t.id, TRUE, t.found)
    IN /\ t.kind = "sign_write"
       /\ InBounds(S1)
       /\ Commit(S1)
       /\ txns' = txns \ {t}
       /\ last' = Op("sign_write", t.id, 1, TRUE)
       /\ UNCHANGED <<today, generated, call>>

NextRace ==
    \/ \E c \in ManualContracts : ActionStartContract(c)
    \/ \E c \in ManualContracts : \E f \in MonthFoldersOf(c) :
          /\ nextId.visit <= MaxRaceVisits
          /\ VisitCreate(c, f, TRUE)
    \/ \E v \in Ids(visits) : ActionSendReportByEmail(v)
    \/ \E p \in FlowPartners : NCCreateBegin(p)
    \/ \E t \in txns : \E render_ok \in BOOLEAN : NCCreateFinish(t, render_ok)
    \/ \E v \in Ids(ncvisits) : NCActionSendReportForSignature(v)
    \/ \E r \in Ids(signRequests) : SignCompletionBegin(r)
    \/ \E t \in txns : SignCompletionFinish(t)

SpecRace == InitSign /\ [][NextRace]_vars

(* C10: once no request is in flight, the folders under 'Signed Reports'   *)
(* and under 'Not Contracted Visits' are one per (parent, name).           *)
C10_OneFolderPerParentAndName ==
    txns = {} =>
        \A f, g \in folders :
            (/\ f.parent_id \in {SignedReportsRoot, NotContractedRoot}
             /\ f.parent_id = g.parent_id
             /\ f.name = g.name)
            => f.id = g.id

(***************************************************************************)
(* Concurrent scheduling: visit creations from the form and runs of the    *)
(* monthly generation, each in its own transaction.  What a transaction    *)
(* searches and counts comes from the snapshot taken when it begins; a     *)
(* slot tells the requests in flight apart.                                *)
(***************************************************************************)
FreeSlot == CHOOSE k \in 1..MaxInFlight : \A t \in txns : t.slot # k

AllRendered == 1..(2 * MaxVisits)

(* CompanyVisit.create up to the search for the partner's sequence *)
VisitCreateBegin(c) ==
    /\ Cardinality(txns) < MaxInFlight
    /\ txns' = txns \cup {[slot |-> FreeSlot, kind |-> "visit_create", contract |-> c,
                           found |-> SequenceSearch(DB, ContractPartner(c)),
                           seen |-> {}]}
    /\ last' = Op("begin", c, 0, TRUE)
    /\ UNCHANGED <<dbvars, today, generated, call>>

(* the rest of CompanyVisit.create and the commit *)
VisitCreateFinish(t) ==
    LET S1 == CompanyVisitCreateFrom(DB, [contract_id |-> t.contract, visit_date |-> Today,
                                          folder_id |-> 0, is_extra_visit |-> FALSE],
                                     TRUE, t.found)
    IN /\ t.kind = "visit_create"
       /\ InBounds(S1)
       /\ Commit(S1)
       /\ txns' = txns \ {t}
       /\ last' = Op("visit_create", nextId.visit, 1, TRUE)
       /\ UNCHANGED <<today, generated, call>>

(* _cron_generate_monthly_visits (specific = 0) or                         *)
(* action_generate_current_month_visits of one contract begins             *)
GenerateBegin(specific) ==
    /\ Cardinality(txns) < MaxInFlight
    /\ txns' = txns \cup {[slot |-> FreeSlot, kind |-> "generate", contract |-> specific,
                           found |-> 0, seen |-> visits]}
    /\ last' = Op("begin", specific, 0, TRUE)
    /\ UNCHANGED <<dbvars, today, generated, call>>

(* the run creates its visits and commits *)
GenerateFinish(t) ==
    LET r == CronRunFrom(DB, CronContracts(DB, t.contract), Today, AllRendered, {},
                         [total |-> 0, log |-> NoCronLog], t.seen)
    IN /\ t.kind = "generate"
       /\ InBounds(r.S)
       /\ Commit(r.S)
       /\ txns' = txns \ {t}
       /\ last' = [op |-> "generate", id |-> t.contract, n |-> r.total, ok |-> TRUE,
                   log |-> r.log, arg |-> NoArg]
       /\ generated' = generated \cup {c \in Contracts : r.log[c].reached}
       /\ UNCHANGED <<today, call>>

NextSchedule ==
    \/ \E c \in Contracts : ActionStartContract(c)
    \/ \E c \in Contracts : VisitCreateBegin(c)
    \/ \E t \in txns : VisitCreateFinish(t)
    \/ \E specific \in {0} \cup Contracts : GenerateBegin(specific)
    \/ \E t \in txns : GenerateFinish(t)

SpecSchedule == InitSign /\ [][NextSchedule]_vars

(* C11: no two contracted visits of the same partner carry the same        *)
(* reference name, also when their creations overlap.                      *)
C11_VisitNamesUniquePerPartner ==
    \A v, w \in visits :
        (ContractPartner(v.contract_id) = ContractPartner(w.contract_id) /\ v.id # w.id)
        => v.name # w.name

VisitsInMonthFolder(c) ==
    {v \in visits : v.contract_id = c /\ v.folder_id # 0
                    /\ v.folder_id = MonthFolderSearch(DB, c, Today)}

(* C19: once no run is in flight, a contract that monthly generation has   *)
(* reached has exactly visits_per_month visits in its month folder, also   *)
(* when two runs overlapped.                                               *)
C19_OverlappingRunsCreateQuota ==
    txns = {} =>
        \A c \in generated : Cardinality(VisitsInMonthFolder(c)) = Quota(c)

(* C18: when action_generate_current_month_visits of a contract counts     *)
(* zero, visits of that contract were already in its folder of the current *)
(* month; when it counts n > 0, exactly n visits were just created.        *)
C18_ZeroCountMeansAlreadyGenerated ==
    [][(last'.op = "generate" /\ last'.id # 0) =>
          /\ last'.n = 0 => VisitsInMonthFolder(last'.id) # {}
          /\ last'.n > 0 => /\ Ids(visits) \subseteq Ids(visits')
                            /\ Cardinality(Ids(visits') \ Ids(visits)) = last'.n]_vars

(***************************************************************************)
(* The life of a visit: it is created, marked done or cancelled from its   *)
(* form, sent for signature, the signature request completes, and visits   *)
(* are deleted.                                                            *)
(***************************************************************************)
(* CompanyVisit.action_mark_done *)
ActionMarkDone(id) ==
    /\ Commit(VisitWriteState(DB, id, "done"))
    /\ last' = Op("mark_done", id, 0, TRUE)
    /\ UNCHANGED <<today, generated, txns, call>>

(* CompanyVisit.action_cancel *)
ActionCancel(id) ==
    /\ Commit(VisitWriteState(DB, id, "cancelled"))
    /\ last' = Op("cancel", id, 0, TRUE)
    /\ UNCHANGED <<today, generated, txns, call>>

(* NotContractedVisit.action_mark_done *)
NCActionMarkDone(id) ==
    /\ Commit(NCVisitWriteState(DB, id, "done"))
    /\ last' = Op("nc_mark_done", id, 0, TRUE)
    /\ UNCHANGED <<today, generated, txns, call>>

(* NotContractedVisit.action_cancel *)
NCActionCancel(id) ==
    /\ Commit(NCVisitWriteState(DB, id, "cancelled"))
    /\ last' = Op("nc_cancel", id, 0, TRUE)
    /\ UNCHANGED <<today, generated, txns, call>>

(* SignRequest.action_done *)
SignRequestActionDone(id) ==
    /\ Commit(SignRequestDone(DB, id))
    /\ last' = Op("sign_done", id, 0, TRUE)
    /\ UNCHANGED <<today, generated, txns, call>>

NextLife ==
    \/ \E c \in ManualContracts : ActionStartContract(c)
    \/ \E c \in ManualContracts : \E f \in MonthFoldersOf(c) :
          /\ nextId.visit <= MaxFlowVisits
          /\ VisitCreate(c, f, TRUE)
    \/ \E p \in FlowPartners : NCVisitCreateAction(p, TRUE, TRUE)
    \/ \E v \in Ids(visits) : ActionMarkDone(v)
    \/ \E v \in Ids(visits) : ActionCancel(v)
    \/ \E v \in Ids(ncvisits) : NCActionMarkDone(v)
    \/ \E v \in Ids(ncvisits) : NCActionCancel(v)
    \/ \E v \in Ids(visits) : ActionSendReportByEmail(v)
    \/ \E v \in Ids(ncvisits) : NCActionSendReportForSignature(v)
    \/ \E r \in Ids(signRequests) : SignRequestWriteAction(r, TRUE)
    \/ \E r \in Ids(signRequests) : SignRequestActionDone(r)
    \/ \E v \in Ids(visits) : \E sign_cascade \in BOOLEAN : VisitUnlink(v, sign_cascade)

SpecLife == InitSign /\ [][NextLife]_vars

Terminal(state) == state \in {"done", "cancelled"}

(* C14: a visit of either kind starts pending, and a visit that is done or *)
(* cancelled keeps its state in every step.                                *)
C14_DoneAndCancelledAreTerminal ==
    [][/\ \A w \in visits' : w.id \notin Ids(visits) => w.state = "pending"
       /\ \A w \in ncvisits' : w.id \notin Ids(ncvisits) => w.state = "pending"
       /\ \A v \in visits : \A w \in visits' :
             (Terminal(v.state) /\ w.id = v.id) => w.state = v.state
       /\ \A v \in ncvisits : \A w \in ncvisits' :
             (Terminal(v.state) /\ w.id = v.id) => w.state = v.state]_vars

(* C30: a visit is created with its reference name and its visit_number,   *)
(* and no step changes the name or the number of a visit that exists.      *)
C30_NameAndNumberFixedAtCreation ==
    [][/\ \A w \in visits' : w.id \notin Ids(visits) => w.visit_number >= 1
       /\ \A v \in visits : \A w \in visits' :
             w.id = v.id => (w.name = v.name /\ w.visit_number = v.visit_number)
       /\ \A v \in ncvisits : \A w \in ncvisits' : w.id = v.id => w.name = v.name]_vars

(* the second visit of a contract went through signature completion and    *)
(* has its signed report, and the first visit was then deleted             *)
C30_Witness ==
    /\ last.op = "visit_unlink"
    /\ \E v \in visits :
          /\ v.state = "done"
          /\ v.visit_number = 2
          /\ \E d \in documents : d.visit_id = v.id /\ HasSigned(d.name)
          /\ \A w \in visits : w.contract_id = v.contract_id => w.id = v.id

(* C21: the completion of a signature request, handled by write with a     *)
(* completed_document or by action_done, leaves a cancelled visit of       *)
(* either kind cancelled.                                                  *)
C21_CompletionKeepsCancelled ==
    [][last'.op \in {"sign_write", "sign_done"} =>
          /\ \A v \in visits : \A w \in visits' :
                (v.state = "cancelled" /\ w.id = v.id) => w.state = "cancelled"
          /\ \A v \in ncvisits : \A w \in ncvisits' :
                (v.state = "cancelled" /\ w.id = v.id) => w.state = "cancelled"]_vars

(* C27: when the completion of a signature request moves a visit of either *)
(* kind from pending to done, a signed report document linked to the visit *)
(* is stored in the partner's folder under 'Signed Reports'.               *)
C27_DoneBySignatureHasSignedReport ==
    [][last'.op \in {"sign_write", "sign_done"} =>
          /\ \A v \in visits : \A w \in visits' :
                (w.id = v.id /\ v.state = "pending" /\ w.state = "done") =>
                   \E d \in documents' : \E f \in folders' :
                      /\ d.visit_id = v.id
                      /\ HasSigned(d.name)
                      /\ d.folder_id = f.id
                      /\ f.parent_id = SignedReportsRoot
                      /\ f.name = FolderNameOf(ContractPartner(v.contract_id))
          /\ \A v \in ncvisits : \A w \in ncvisits' :
                (w.id = v.id /\ v.state = "pending" /\ w.state = "done") =>
                   \E d \in documents' : \E f \in folders' :
                      /\ d.not_contracted_visit_id = v.id
                      /\ HasSigned(d.name)
                      /\ d.folder_id = f.id
                      /\ f.parent_id = SignedReportsRoot
                      /\ f.name = FolderNameOf(v.partner_id)]_vars

(***************************************************************************)
(* Folders: contracts are started, visits of both kinds store their        *)
(* reports, and users delete folders.                                      *)
(***************************************************************************)
(* visit.folder unlink from the folders view: n is the number of documents *)
(* that went with the folder                                               *)
FolderUnlinkAction(id) ==
    LET S1 == FolderUnlink(DB, id)
    IN /\ Commit(S1)
       /\ last' = Op("folder_unlink", id, Cardinality(documents) - Cardinality(S1.documents),
                     TRUE)
       /\ UNCHANGED <<today, generated, txns, call>>

NextFolders ==
    \/ \E c \in Contracts : ActionStartContract(c)
    \/ \E c \in Contracts : \E f \in MonthFoldersOf(c) :
          /\ nextId.visit <= MaxRaceVisits
          /\ VisitCreate(c, f, TRUE)
    \/ \E p \in FlowPartners : NCVisitCreateAction(p, TRUE, TRUE)
    \/ \E f \in Ids(folders) : FolderUnlinkAction(f)

SpecFolders == Init /\ [][NextFolders]_vars

(* C15: a contract has a root folder exactly when it is not a draft.       *)
C15_FolderIffNotDraft ==
    \A c \in Contracts : (contracts[c].folder_id # 0) <=> (contracts[c].state # "draft")

(* C16: starting a draft contract whose start_date is not after its        *)
(* end_date gives the new root folder one month folder for each calendar   *)
(* month from the month of start_date to the month of end_date, and no     *)
(* other child.                                                            *)
C16_OneFolderPerCalendarMonth ==
    [][(last'.op = "start_contract" /\ last'.ok) =>
          LET self == contracts[last'.id]
              children == {f \in folders' : f.parent_id = contracts'[last'.id].folder_id}
              months == (self.start_date[1] * 12 + self.start_date[2] - 1) ..
                        (self.end_date[1] * 12 + self.end_date[2] - 1)
          IN DateLE(self.start_date, self.end_date) =>
                /\ {f.name : f \in children} =
                      {MonthFolderName(<<k \div 12, (k % 12) + 1, 1>>) : k \in months}
                /\ Cardinality(children) = Cardinality(months)]_vars

(* g is the folder f or lies below it, found by walking up from g *)
RECURSIVE IsUnder(_, _, _)
IsUnder(all_folders, g, f) ==
    IF g = f THEN TRUE
    ELSE IF g \notin Ids(all_folders) THEN FALSE
    ELSE IsUnder(all_folders, Lookup(all_folders, g).parent_id, f)

(* C17: deleting a folder removes exactly the folders of its subtree and   *)
(* exactly the documents stored in them; every other folder and document   *)
(* stays as it was.                                                        *)
C17_FolderDeleteCascades ==
    [][last'.op = "folder_unlink" =>
          /\ folders' = {g \in folders : ~IsUnder(folders, g.id, last'.id)}
          /\ documents' = {d \in documents : ~IsUnder(folders, d.folder_id, last'.id)}]_vars

C17_Witness ==
    /\ last.op = "folder_unlink"
    /\ last.n >= 1
    /\ documents # {}
    /\ \E c \in Contracts : contracts[c].state = "in_progress" /\ contracts[c].folder_id = 0
    /\ last.id \notin Ids(folders)

(***************************************************************************)
(* Contracts: they are started, closed or cancelled from the form, visits  *)
(* are generated by the scheduled run and on demand, and users delete      *)
(* folders.                                                                *)
(***************************************************************************)
(* write({'state': state}) on a contract in progress: the status field is  *)
(* a plain editable Selection, and no method of the module closes or       *)
(* cancels a contract                                                      *)
ContractWriteState(c, state) ==
    /\ contracts[c].state = "in_progress"
    /\ Commit([DB EXCEPT !.contracts[c].state = state])
    /\ last' = Op("contract_write", c, 0, TRUE)
    /\ UNCHANGED <<today, generated, txns, call>>

NextContracts ==
    \/ \E c \in Contracts : ActionStartContract(c)
    \/ \E c \in Contracts : \E state \in {"done", "cancelled"} : ContractWriteState(c, state)
    \/ CronGenerate
    \/ \E c \in Contracts : ActionGenerateCurrentMonthVisits(c)
    \/ \E f \in Ids(folders) : FolderUnlinkAction(f)

SpecContracts == InitSign /\ [][NextContracts]_vars

(* C22: a visit created by monthly generation, scheduled or on demand,     *)
(* belongs to a contract that is in progress and has a root folder.        *)
C22_GeneratesOnlyForContractsInProgress ==
    [][last'.op = "generate" =>
          \A w \in visits' :
             w.id \notin Ids(visits) =>
                /\ contracts[w.contract_id].state = "in_progress"
                /\ contracts[w.contract_id].folder_id # 0]_vars

(* C26: action_start_contract on a contract that is not a draft raises and *)
(* changes no record; a step makes a contract in progress only from draft, *)
(* and gives it a root folder only when it had none.                       *)
C26_StartRejectedUnlessDraft ==
    [][/\ (last'.op = "start_contract" /\ contracts[last'.id].state # "draft") =>
             (~last'.ok /\ dbvars' = dbvars)
       /\ \A c \in Contracts :
             /\ (contracts'[c].state = "in_progress" /\ contracts[c].state # "in_progress")
                   => contracts[c].state = "draft"
             /\ (contracts'[c].folder_id # contracts[c].folder_id /\ contracts'[c].folder_id # 0)
                   => (contracts[c].state = "draft" /\ contracts[c].folder_id = 0)]_vars

(* a started contract lost its root folder, and starting it again was      *)
(* rejected                                                                *)
C26_Witness ==
    /\ last.op = "start_contract"
    /\ ~last.ok
    /\ contracts[last.id].state = "in_progress"
    /\ contracts[last.id].folder_id = 0

(* C24: the count that _cron_generate_monthly_visits returns is the number *)
(* of visits the run created, whatever the renderer did for each of them,  *)
(* and every created visit has its number, distinct from the numbers of    *)
(* the other visits created for the same contract.                         *)
C24_ReturnedCountIsVisitsCreated ==
    [][last'.op = "generate" =>
          LET created == {w \in visits' : w.id \notin Ids(visits)}
          IN /\ Ids(visits) \subseteq Ids(visits')
             /\ Cardinality(created) = last'.n
             /\ \A v \in created : v.visit_number >= 1
             /\ \A v, w \in created :
                   (v.contract_id = w.contract_id /\ v.id # w.id)
                      => v.visit_number # w.visit_number]_vars

(* the scheduled run created two visits or more, the renderer failed for   *)
(* one of them and returned for another                                    *)
C24_Witness ==
    /\ last.op = "generate"
    /\ last.id = 0
    /\ last.n >= 2
    /\ Cardinality(visits) = last.n
    /\ \E v, w \in visits : v.report_document_id = 0 /\ w.report_document_id # 0

(***************************************************************************)
(* Completion of signature requests whose visit may be gone: visits are    *)
(* created, sent for signature and deleted, and requests are written with  *)
(* and without a completed document.                                       *)
(***************************************************************************)
NextCompletion ==
    \/ \E c \in ManualContracts : ActionStartContract(c)
    \/ \E c \in ManualContracts : \E f \in MonthFoldersOf(c) :
          /\ nextId.visit <= MaxFlowVisits
          /\ VisitCreate(c, f, TRUE)
    \/ \E p \in FlowPartners : NCVisitCreateAction(p, TRUE, TRUE)
    \/ \E v \in Ids(visits) : ActionSendReportByEmail(v)
    \/ \E v \in Ids(ncvisits) : NCActionSendReportForSignature(v)
    \/ \E v \in Ids(visits) : \E sign_cascade \in BOOLEAN : VisitUnlink(v, sign_cascade)
    \/ \E r \in Ids(signRequests) : \E completed \in BOOLEAN :
          SignRequestWriteAction(r, completed)

SpecCompletion == InitSign /\ [][NextCompletion]_vars

(* C25: a write on a signature request without completed_document changes *)
(* no record; a write with completed_document on a request linked to no    *)
(* visit stores the document on the request and changes nothing else.      *)
C25_NoPayloadOrNoVisitIsNoOp ==
    [][last'.op = "sign_write" =>
          /\ last'.n = 0 => dbvars' = dbvars
          /\ \A r \in signRequests :
                (/\ r.id = last'.id
                 /\ last'.n = 1
                 /\ r.company_visit_id = 0
                 /\ r.not_contracted_visit_id = 0)
                => /\ <<contracts', folders', documents', visits', ncvisits', sequences',
                        nextId', document_count', activities'>>
                        = <<contracts, folders, documents, visits, ncvisits, sequences,
                            nextId, document_count, activities>>
                   /\ signRequests' = (signRequests \ {r})
                                         \cup {[r EXCEPT !.completed_document = TRUE]}]_vars

(* the visit of a request was deleted, and the request was then written    *)
(* with its completed document                                             *)
C25_Witness ==
    /\ last.op = "sign_write"
    /\ last.n = 1
    /\ \E r \in signRequests :
          /\ r.id = last.id
          /\ r.company_visit_id = 0
          /\ r.not_contracted_visit_id = 0
          /\ r.completed_document

(***************************************************************************)
(* Documents: reports are generated for visits of both kinds, signed       *)
(* copies are uploaded, and users delete documents and folders.            *)
(***************************************************************************)
(* visit.document unlink from the documents view *)
DocumentUnlinkAction(id) ==
    /\ Commit(DocumentUnlink(DB, id))
    /\ last' = Op("document_unlink", id, 0, TRUE)
    /\ UNCHANGED <<today, generated, txns, call>>

NextDocuments ==
    \/ \E c \in ManualContracts : ActionStartContract(c)
    \/ \E c \in ManualContracts : \E f \in MonthFoldersOf(c) :
          /\ nextId.visit <= MaxFlowVisits
          /\ VisitCreate(c, f, TRUE)
    \/ \E p \in FlowPartners : NCVisitCreateAction(p, TRUE, TRUE)
    \/ \E u \in Uploads : DocumentCreateAction(u.name, u.folder_id)
    \/ \E d \in Ids(documents) : DocumentUnlinkAction(d)
    \/ \E f \in Ids(folders) : FolderUnlinkAction(f)

SpecDocuments == InitSign /\ [][NextDocuments]_vars

MaxActivities == 2

(* VisitContract._cron_contract_expiry_reminder on the day date: an        *)
(* activity is scheduled on every contract in progress that ends one month *)
(* later                                                                   *)
ContractExpiryReminder(S, date) ==
    LET target_expiry_date == AddMonths(date, 1)
        expiring_contracts == {c \in Contracts : /\ S.contracts[c].state = "in_progress"
                                                 /\ S.contracts[c].end_date = target_expiry_date}
    IN [S EXCEPT !.activities = [c \in Contracts |->
                                   IF c \in expiring_contracts THEN @[c] + 1 ELSE @[c]]]

CronContractExpiryReminder ==
    LET S1 == ContractExpiryReminder(DB, Today)
    IN /\ \A c \in Contracts : S1.activities[c] <= MaxActivities
       /\ Commit(S1)
       /\ last' = Op("expiry_reminder", 0, 0, TRUE)
       /\ UNCHANGED <<today, generated, txns, call>>

InitReminder ==
    /\ \E f \in [Contracts -> UNION {ContractChoices(c) : c \in Contracts}] :
          /\ \A c \in Contracts : f[c] \in ContractChoices(c)
          /\ contracts = [f EXCEPT ![1].end_date = AddMonths(TriggerDates[1], 1)]
    /\ InitRecords
    /\ call = NoCall

NextReminder ==
    \/ \E c \in Contracts : ActionStartContract(c)
    \/ \E c \in Contracts : \E state \in {"done", "cancelled"} : ContractWriteState(c, state)
    \/ CronContractExpiryReminder

SpecReminder == InitReminder /\ [][NextReminder]_vars

(* C29: a run of the expiry reminder that follows another run on the same  *)
(* day schedules no activity, and every contract in progress that ends one *)
(* month after today then has exactly one reminder.                        *)
C29_ReminderIdempotent ==
    [][(last.op = "expiry_reminder" /\ last'.op = "expiry_reminder") =>
          /\ activities' = activities
          /\ \A c \in Contracts :
                (/\ contracts[c].state = "in_progress"
                 /\ contracts[c].end_date = AddMonths(Today, 1))
                => activities'[c] = 1]_vars

====
